---- MODULE Spec2Model ----
(***************************************************************************)
(* Model of the FinInsightBot query pipeline: the LangGraph workflow of    *)
(* app/agents/financial_agent_graph.py (resolve_query -> analyze ->        *)
(* conditional fetchers -> generate_answer), its node functions, and the   *)
(* session endpoint of app/main.py that drives it.                         *)
(*                                                                         *)
(* Texts are strings; what the code computes from their characters (the    *)
(* regex tokens, substring tests) is tabulated per word in WordTokens,     *)
(* WordHasNews and WordHasSec.  External collaborators (the LLM, Yahoo     *)
(* Finance, SerpAPI, Chroma) are nondeterministic: each call returns a     *)
(* value of a small set or fails.                                          *)
(***************************************************************************)
EXTENDS Integers, Sequences, FiniteSets, TLC

VARIABLES
    sessions,       \* main.py `sessions`, restricted to one session id: NoSession or its record
    mode,           \* who started the current run: "none", "direct" (financial_graph.invoke),
                    \* "web", or "unit" (one node function called on its own)
    pc,             \* the node that runs next; "idle", "END", "raised", "returned",
                    \* "analyze_shutdown" (analyze_request waiting in the executor's exit)
    state,          \* the graph's FinancialAgentState channels
    executed,       \* nodes executed in the current run, in order
    calls,          \* collaborators called in the current run
    failed,         \* collaborators that failed in the current run
    current_state,  \* event_stream's current_state dict
    events,         \* events the current request's stream has yielded, in order
    replies,        \* what the collaborators returned to a node function called on its own
    other,          \* a second request on the same session, in flight at the same time:
                    \* its phase and its event_stream's current_state
    arrived         \* the message texts of the requests accepted on the session, in
                    \* the order their handlers ran

vars == <<sessions, mode, pc, state, executed, calls, failed, current_state, events, replies,
          other, arrived>>

----------------------------------------------------------------------------
(* Bounds of the model *)

\* longest message list handed to a direct invocation of the graph
MaxMsgs == 2
\* most requests served on the one session
MaxTurns == 2

----------------------------------------------------------------------------
(* Generic helpers *)

Range(s) == {s[i] : i \in 1..Len(s)}

SeqsUpTo(S, n) == UNION {[1..k -> S] : k \in 0..n}

\* the elements of s that satisfy Test, in order
RECURSIVE SelectIdx(_, _, _)
SelectIdx(s, keep, i) ==
    IF i > Len(s) THEN <<>>
    ELSE (IF i \in keep THEN <<s[i]>> ELSE <<>>) \o SelectIdx(s, keep, i + 1)

RECURSIVE Flatten(_)
Flatten(ss) == IF ss = <<>> THEN <<>> ELSE Head(ss) \o Flatten(Tail(ss))

\* dict.update / LangGraph channel write: the keys of upd are set in d
DictUpdate(d, upd) ==
    [k \in DOMAIN d \cup DOMAIN upd |-> IF k \in DOMAIN upd THEN upd[k] ELSE d[k]]

EmptyMap == [t \in {} |-> "none"]

----------------------------------------------------------------------------
(* Texts *)

\* the words of each text the model uses (split at spaces)
TextWords(t) ==
    CASE t = ""          -> <<>>
      [] t = "aapl news" -> <<"aapl", "news">>
      [] t = "its pe"    -> <<"its", "pe">>
      [] t = "aapl pe"   -> <<"aapl", "pe">>
      [] t = "the 10-k"  -> <<"the", "10-k">>
      [] t = "sure"      -> <<"sure">>
      [] t = "AAPL price" -> <<"AAPL", "price">>
      [] t = "buy F"     -> <<"buy", "F">>
      [] t = "is on"     -> <<"is", "on">>
      [] t = "security headline" -> <<"security", "headline">>
      [] t = "aapl 2023" -> <<"aapl", "2023">>

\* re.findall(r'\b[A-Z]{1,5}\b', word.upper()): the runs of 1 to 5 letters
\* between word boundaries, upper-cased
WordTokens(w) ==
    CASE w = "aapl" -> <<"AAPL">>
      [] w = "news" -> <<"NEWS">>
      [] w = "its"  -> <<"ITS">>
      [] w = "pe"   -> <<"PE">>
      [] w = "the"  -> <<"THE">>
      [] w = "10-k" -> <<"K">>
      [] w = "sure" -> <<"SURE">>
      [] w = "AAPL" -> <<"AAPL">>
      [] w = "price" -> <<"PRICE">>
      [] w = "buy"  -> <<"BUY">>
      [] w = "F"    -> <<"F">>
      [] w = "is"   -> <<"IS">>
      [] w = "on"   -> <<"ON">>
      [] w \in {"security", "headline", "2023"} -> <<>>   \* no run of 1 to 5 letters

TokenLen(t) ==
    CASE t \in {"K", "F"} -> 1
      [] t \in {"PE", "IS", "ON"} -> 2
      [] t \in {"ITS", "THE", "BUY"} -> 3
      [] t \in {"AAPL", "NEWS", "SURE", "TSLA"} -> 4
      [] t \in {"PRICE"} -> 5

\* "news" in word.lower() or "headline" in word.lower()
WordHasNews(w) == w \in {"news", "headline"}
\* "sec" in word.lower() or "10-" in word.lower()
WordHasSec(w) == w \in {"10-k", "security"}

----------------------------------------------------------------------------
(* FinancialAgentState *)

NodeNames == {"resolve_query", "analyze", "fetch_fundamental", "fetch_technical",
              "fetch_news", "retrieve_docs", "generate_answer"}

\* the field defaults of FinancialAgentState
DefaultState ==
    [messages |-> <<>>, query |-> "", ticker |-> <<>>, is_financial |-> FALSE,
     needs_fundamental |-> FALSE, needs_technical |-> FALSE,
     needs_news |-> FALSE, needs_secfiling |-> FALSE,
     fundamental_data |-> EmptyMap, technical_data |-> EmptyMap,
     news_articles |-> <<>>, retrieved_docs |-> <<>>, answer |-> ""]

Message(role, content) == [role |-> role, content |-> content]

----------------------------------------------------------------------------
(* resolve_query_with_history *)

\* index of the last message with role "user", 0 when there is none
\* (the reversed() loop that sets latest_user_msg)
LatestUserIdx(messages) ==
    LET users == {i \in 1..Len(messages) : messages[i].role = "user"}
    IN  IF users = {} THEN 0 ELSE CHOOSE i \in users : \A j \in users : j <= i

\* `not latest_user_msg`: no user message, or its content is the empty string
NoLatestUserMsg(messages) ==
    \/ LatestUserIdx(messages) = 0
    \/ messages[LatestUserIdx(messages)].content = ""

\* the rewriting chain is invoked exactly on this path
ResolveCallsRewrite(messages) ==
    /\ messages # <<>>
    /\ ~NoLatestUserMsg(messages)
    /\ Len(messages) # 1

\* variant: the fallback and the single-message path read the last message
\* instead of the latest user message
ResolveQueryWithHistory_last_message(messages, rw) ==
    IF messages = <<>> THEN [query |-> "", is_financial |-> FALSE]
    ELSE LET last_msg == messages[Len(messages)].content IN
         IF Len(messages) = 1 THEN [query |-> last_msg]
         ELSE IF LatestUserIdx(messages) = 0 THEN [query |-> "", is_financial |-> FALSE]
         ELSE [query |-> IF rw.ok THEN rw.text ELSE last_msg]

\* variant: the exception of the rewriting chain is not caught; the query
\* is left as the chain's (absent) output
ResolveQueryWithHistory_no_fallback(messages, rw) ==
    IF messages = <<>> THEN [query |-> "", is_financial |-> FALSE]
    ELSE IF NoLatestUserMsg(messages) THEN [query |-> "", is_financial |-> FALSE]
    ELSE LET latest_user_msg == messages[LatestUserIdx(messages)].content IN
         IF Len(messages) = 1 THEN [query |-> latest_user_msg]
         ELSE [query |-> rw.text]

\* variant: no single-message shortcut, the rewritten text is always used
ResolveQueryWithHistory_always_rewrite(messages, rw) ==
    IF messages = <<>> THEN [query |-> "", is_financial |-> FALSE]
    ELSE IF NoLatestUserMsg(messages) THEN [query |-> "", is_financial |-> FALSE]
    ELSE [query |-> IF rw.ok THEN rw.text ELSE messages[LatestUserIdx(messages)].content]

\* the update resolve_query_with_history returns; rw is the outcome of
\* chain.invoke: [ok |-> TRUE, text |-> t] or [ok |-> FALSE] (it raised)
ResolveQueryWithHistory(messages, rw) ==
    IF messages = <<>> THEN [query |-> "", is_financial |-> FALSE]
    ELSE IF NoLatestUserMsg(messages) THEN [query |-> "", is_financial |-> FALSE]
    ELSE LET latest_user_msg == messages[LatestUserIdx(messages)].content IN
         IF Len(messages) = 1 THEN [query |-> latest_user_msg]
         ELSE [query |-> IF rw.ok THEN rw.text ELSE latest_user_msg]

----------------------------------------------------------------------------
(* analyze_request and analyze_user_query *)

\* t.strip().upper() of the raw ticker strings the model uses
StripUpper(t) ==
    CASE t \in {"AAPL", "aapl", " aapl "} -> "AAPL"
      [] t \in {"TSLA", "tsla"} -> "TSLA"
      [] t \in {"", " "} -> ""

\* A dict the LLM chain returned: every key of the prompt's schema maps to a
\* raw value, "absent" standing for a key the dict does not hold.  Raw flag
\* values are "True", "False", "None" and "'false'" (a non-empty string).
Get(result, key, default) ==
    IF result[key] = "absent" THEN default ELSE result[key]

\* bool(v)
Truthy(v) == v \in {"True", "'false'"}

\* the clean-up of result.get("ticker", []): raw is [kind, val] with kind
\* "none" (None), "str" (val holds the one string), "list" or "other"; an
\* absent key reads as []
CleanTicker(raw) ==
    CASE raw.kind = "none" -> <<>>
      [] raw.kind = "absent" -> <<>>
      [] raw.kind = "str"  ->
            IF StripUpper(raw.val[1]) # "" THEN <<StripUpper(raw.val[1])>> ELSE <<>>
      [] raw.kind = "list" ->
            LET keep == {i \in 1..Len(raw.val) : StripUpper(raw.val[i]) # ""}
                kept == SelectIdx(raw.val, keep, 1)
            IN  [i \in 1..Len(kept) |-> StripUpper(kept[i])]
      [] OTHER -> <<>>

\* the primary path's flat_result for a dict the LLM chain returned
PrimaryResult(result) ==
    [is_financial      |-> Truthy(Get(result, "is_financial", "False")),
     ticker            |-> CleanTicker(result.ticker),
     needs_fundamental |-> Truthy(Get(result, "needs_fundamental", "False")),
     needs_technical   |-> Truthy(Get(result, "needs_technical", "False")),
     needs_news        |-> Truthy(Get(result, "needs_news", "False")),
     needs_secfiling   |-> Truthy(Get(result, "needs_secfiling", "False"))]

common_words == {"I", "A", "AN", "THE", "IS", "AND", "OR", "IN", "ON", "TO", "FOR",
                 "OF", "ETF", "USD"}

\* re.findall(r'\b[A-Z]{1,5}\b', query.upper())
QueryTokens(query) ==
    LET ws == TextWords(query)
    IN  Flatten([i \in 1..Len(ws) |-> WordTokens(ws[i])])

\* variant: is_financial is decided on the tokens before the filter
FallbackResult_any_token(query) ==
    [is_financial      |-> Len(QueryTokens(query)) > 0,
     ticker            |-> LET tickers == QueryTokens(query)
                           IN  SelectIdx(tickers,
                                         {i \in 1..Len(tickers) :
                                             tickers[i] \notin common_words
                                                /\ TokenLen(tickers[i]) >= 2}, 1),
     needs_fundamental |-> FALSE,
     needs_technical   |-> FALSE,
     needs_news        |-> \E w \in Range(TextWords(query)) : WordHasNews(w),
     needs_secfiling   |-> \E w \in Range(TextWords(query)) : WordHasSec(w)]

\* the regex fallback of analyze_request
FallbackResult(query) ==
    LET tickers == QueryTokens(query)
        keep == {i \in 1..Len(tickers) :
                    tickers[i] \notin common_words /\ TokenLen(tickers[i]) >= 2}
        filtered_tickers == SelectIdx(tickers, keep, 1)
    IN  [is_financial      |-> Len(filtered_tickers) > 0,
         ticker            |-> filtered_tickers,
         needs_fundamental |-> FALSE,
         needs_technical   |-> FALSE,
         needs_news        |-> \E w \in Range(TextWords(query)) : WordHasNews(w),
         needs_secfiling   |-> \E w \in Range(TextWords(query)) : WordHasSec(w)]

\* variant: a failed primary path yields the all-false record, no fallback
AnalyzeRequest_no_fallback(query, llm) ==
    IF llm.kind = "dict" THEN PrimaryResult(llm.result)
    ELSE [is_financial |-> FALSE, ticker |-> <<>>, needs_fundamental |-> FALSE,
          needs_technical |-> FALSE, needs_news |-> FALSE, needs_secfiling |-> FALSE]

\* analyze_request: llm is the outcome of the LLM chain under its timeout:
\* [kind |-> "dict", result |-> r], or a kind that raises inside the try and
\* so reaches the fallback: "raise" (the chain raised), "timeout"
\* (future.result timed out), "badjson" (a string that is no JSON),
\* "nondict" (neither str nor dict), "jsonlist" (a JSON string of a list:
\* result.get raises AttributeError)
AnalyzeRequest(query, llm) ==
    IF llm.kind = "dict" THEN PrimaryResult(llm.result) ELSE FallbackResult(query)

\* the update analyze_user_query returns
AnalyzeUserQuery(query, llm) ==
    LET analysis == AnalyzeRequest(query, llm)
    IN  [is_financial      |-> analysis.is_financial,
         ticker            |-> analysis.ticker,
         needs_fundamental |-> analysis.needs_fundamental,
         needs_technical   |-> analysis.needs_technical,
         needs_news        |-> analysis.needs_news,
         needs_secfiling   |-> analysis.needs_secfiling]

----------------------------------------------------------------------------
(* Routing functions of create_financial_agent_graph *)

\* variant: the parallel policy's unconditional first hop
route_after_analysis_unconditional(st) == "fetch_fundamental"

\* variant: the router sends a non-financial query straight to the
\* Synthesizer
route_after_analysis_checks_financial(st) ==
    IF ~st.is_financial THEN "generate_answer"
    ELSE IF st.needs_fundamental THEN "fetch_fundamental"
    ELSE IF st.needs_technical THEN "fetch_technical"
    ELSE IF st.needs_news THEN "fetch_news"
    ELSE IF st.needs_secfiling THEN "retrieve_docs"
    ELSE "generate_answer"

route_after_analysis(st) ==
    IF st.needs_fundamental THEN "fetch_fundamental"
    ELSE IF st.needs_technical THEN "fetch_technical"
    ELSE IF st.needs_news THEN "fetch_news"
    ELSE IF st.needs_secfiling THEN "retrieve_docs"
    ELSE "generate_answer"

route_after_fundamental(st) ==
    IF st.needs_technical THEN "fetch_technical"
    ELSE IF st.needs_news THEN "fetch_news"
    ELSE IF st.needs_secfiling THEN "retrieve_docs"
    ELSE "generate_answer"

\* variant: documents are tried before news
route_after_technical_docs_first(st) ==
    IF st.needs_secfiling THEN "retrieve_docs"
    ELSE IF st.needs_news THEN "fetch_news"
    ELSE "generate_answer"

route_after_technical(st) ==
    IF st.needs_news THEN "fetch_news"
    ELSE IF st.needs_secfiling THEN "retrieve_docs"
    ELSE "generate_answer"

route_after_news(st) ==
    IF st.needs_secfiling THEN "retrieve_docs"
    ELSE "generate_answer"

\* the edges of the compiled graph: the node that follows `node`
NextNode(node, st) ==
    CASE node = "resolve_query"     -> "analyze"
      [] node = "analyze"           -> route_after_analysis(st)
      [] node = "fetch_fundamental" -> route_after_fundamental(st)
      [] node = "fetch_technical"   -> route_after_technical(st)
      [] node = "fetch_news"        -> route_after_news(st)
      [] node = "retrieve_docs"     -> "generate_answer"
      [] node = "generate_answer"   -> "END"

----------------------------------------------------------------------------
(* Market data: clients/yfinance_client.py and the two per-ticker fetchers *)

\* what get_fundamental_data can return: the metrics dict, whose market_cap
\* is a number ("number"), None ("none") or, when Yahoo's payload is
\* malformed, a non-numeric truthy value ("malformed"); or {"error": str(e)}
Metrics(cap) == [kind |-> "metrics", market_cap |-> cap]
ErrorMarker(msg) == [kind |-> "error", error |-> msg]
\* what get_technical_data can return: the indicator dict or {"error": ...}
Indicators == [kind |-> "indicators"]

\* "error" in str(message), for the messages the model uses
TextHasError(msg) ==
    CASE msg = "HTTP Error 404" -> FALSE     \* str.__contains__ is case-sensitive
      [] msg = "Too Many Requests. Rate limited. Try after a while." -> FALSE
      [] msg = "Insufficient price history" -> FALSE
      [] msg = "Connection error" -> TRUE
      [] msg = "" -> FALSE

\* variant: one failed ticker blanks the whole map
PerTickerData_all_or_nothing(ticker, outs) ==
    IF \E i \in 1..Len(ticker) : outs[i].kind = "error"
    THEN [t \in Range(ticker) |->
            outs[CHOOSE i \in 1..Len(ticker) : outs[i].kind = "error"]]
    ELSE [t \in Range(ticker) |-> outs[CHOOSE i \in 1..Len(ticker) : ticker[i] = t]]

\* variant: the map is handed over after the first ticker
PerTickerData_first_only(ticker, outs) == [t \in {ticker[1]} |-> outs[1]]

\* the dict a per-ticker loop builds: all_data[ticker] = data, later
\* occurrences of a ticker overwriting earlier ones
PerTickerData(ticker, outs) ==
    [t \in Range(ticker) |->
        outs[CHOOSE i \in 1..Len(ticker) :
                /\ ticker[i] = t
                /\ \A j \in 1..Len(ticker) : ticker[j] = t => j <= i]]

FundamentalRuns(st) == st.is_financial /\ st.needs_fundamental /\ st.ticker # <<>>

\* fetch_fundamental_data: outs[i] is what get_fundamental_data returns for
\* the i-th ticker
FetchFundamentalData(st, outs) ==
    IF ~FundamentalRuns(st) THEN [fundamental_data |-> EmptyMap]
    ELSE [fundamental_data |-> PerTickerData(st.ticker, outs)]

TechnicalRuns(st) == st.is_financial /\ st.needs_technical /\ st.ticker # <<>>

\* variant: the technical fetcher also clears the fundamental map
FetchTechnicalData_resets_fundamental(st, outs) ==
    IF ~TechnicalRuns(st) THEN [technical_data |-> EmptyMap, fundamental_data |-> EmptyMap]
    ELSE [technical_data |-> PerTickerData(st.ticker, outs), fundamental_data |-> EmptyMap]

\* fetch_technical_data
FetchTechnicalData(st, outs) ==
    IF ~TechnicalRuns(st) THEN [technical_data |-> EmptyMap]
    ELSE [technical_data |-> PerTickerData(st.ticker, outs)]

----------------------------------------------------------------------------
(* fetch_news *)

\* code constants: unique_news[:5] and queries[:3]
NewsCap == 5
QueryCap == 3

Article(url, title) == [source |-> url, title |-> title]

\* variant: news is fetched only for a non-empty ticker list
NewsRuns_requires_ticker(st) == st.is_financial /\ st.needs_news /\ st.ticker # <<>>

NewsRuns(st) == st.is_financial /\ st.needs_news

\* one search is run per generated query, for each ticker, or once without
\* ticker when the list is empty
NewsUnits(st) == IF Len(st.ticker) > 0 THEN Len(st.ticker) ELSE 1

\* variant: nothing is removed
UniqueNews_no_dedup(all_news, seen) == all_news

\* variant: a result without source URL is kept
RECURSIVE UniqueNews_keeps_unlinked(_, _)
UniqueNews_keeps_unlinked(all_news, seen) ==
    IF all_news = <<>> THEN <<>>
    ELSE LET doc == Head(all_news)
         IN  IF doc.source \notin seen
             THEN <<doc>> \o UniqueNews_keeps_unlinked(Tail(all_news),
                                                       seen \cup {doc.source})
             ELSE UniqueNews_keeps_unlinked(Tail(all_news), seen)

\* the "Remove duplicates by source URL" loop: first occurrence of each
\* non-empty source wins, order kept
RECURSIVE UniqueNews(_, _)
UniqueNews(all_news, seen) ==
    IF all_news = <<>> THEN <<>>
    ELSE LET doc == Head(all_news)
             src == doc.source
         IN  IF src # "" /\ src \notin seen
             THEN <<doc>> \o UniqueNews(Tail(all_news), seen \cup {src})
             ELSE UniqueNews(Tail(all_news), seen)

FirstN(s, n) == IF Len(s) <= n THEN s ELSE SubSeq(s, 1, n)

\* SerpNewsRetriever._get_relevant_documents: r is the outcome of the search
\* request, [ok |-> TRUE, docs |-> list] or [ok |-> FALSE]; a failure is
\* caught there and reads as no document
SearchDocs(r) == IF r.ok THEN r.docs ELSE <<>>

\* generate_news_queries: u.gen_ok tells whether the query-writing chain
\* returned; u.searches holds, per line of its answer, the outcome of the
\* search that query gets.  A failure is caught there and reads as no query
GeneratedQueries(u) == IF u.gen_ok THEN FirstN(u.searches, QueryCap) ELSE <<>>

\* the accumulation all_news: per unit, per generated query, the search's
\* documents
AllNews(plan) ==
    Flatten([u \in 1..Len(plan) |->
                LET qs == GeneratedQueries(plan[u])
                IN  Flatten([q \in 1..Len(qs) |-> SearchDocs(qs[q])])])

\* fetch_news: plan[u] is the outcome of the u-th unit
FetchNews(st, plan) ==
    IF ~NewsRuns(st) THEN [news_articles |-> <<>>]
    ELSE [news_articles |-> FirstN(UniqueNews(AllNews(plan), {}), NewsCap)]

----------------------------------------------------------------------------
(* retrieve_documents *)

DocCap == 8

\* a retrieved passage: id is Document.id ("" when None), source_file the
\* metadata key ("" when absent), obj the identity of the Python object
Doc(obj, id, source_file, ticker, period, section) ==
    [obj |-> obj, id |-> id, source_file |-> source_file, company_ticker |-> ticker,
     period_end |-> period, section_title |-> section]

\* _extract_year: the first 19xx/20xx number of the query text
ExtractYear(query) ==
    CASE query = "aapl 2023" -> "2023"
      [] query = "aapl 2100" -> ""      \* no match of (20\d{2}|19\d{2})
      [] OTHER -> ""

\* year in str(period_end)
PeriodHasYear(period, year) ==
    CASE period = "2023-12-31" -> year = "2023"
      [] period = "2022-12-31" -> year = "2022"
      [] OTHER -> FALSE

\* company_ticker.upper()
UpperTicker(t) ==
    CASE t \in {"AAPL", "aapl"} -> "AAPL"
      [] t \in {"TSLA", "tsla"} -> "TSLA"
      [] OTHER -> t

\* _section_score of the section titles the model uses
SectionScore(title) ==
    CASE title = "Item 7. Management's Discussion" -> 3
      [] title = "Item 1A. Risk Factors"           -> 3
      [] title = "Item 2. Properties"              -> 1
      [] title = "Signatures"                      -> -2
      [] title = "Exhibit Index"                   -> -2
      [] title = "Item 16. Form 10-K Summary"      -> 0
      [] title = "Cover Page"                      -> 0
      [] title = ""                                -> 0

\* any(key in top_title for key in ["signatures", "item 16"])
LooksUninformative(title) ==
    title \in {"Signatures", "Item 16. Form 10-K Summary"}

\* the members of docs whose score is sc, in their order
DocsWithScore(docs, sc) ==
    SelectIdx(docs, {i \in 1..Len(docs) : SectionScore(docs[i].section_title) = sc}, 1)

\* _rerank_docs: sorted(..., reverse=True) is stable
RerankDocs(docs) ==
    DocsWithScore(docs, 3) \o DocsWithScore(docs, 1) \o DocsWithScore(docs, 0)
        \o DocsWithScore(docs, -2)

\* getattr(d, 'id', None) or d.metadata.get('source_file') or id(d)
DocKey(d) ==
    IF d.id # "" THEN d.id
    ELSE IF d.source_file # "" THEN d.source_file
    ELSE d.obj

RECURSIVE MergeUnique(_, _)
MergeUnique(ds, seen_ids) ==
    IF ds = <<>> THEN <<>>
    ELSE LET d == Head(ds) IN
         IF DocKey(d) \in seen_ids THEN MergeUnique(Tail(ds), seen_ids)
         ELSE <<d>> \o MergeUnique(Tail(ds), seen_ids \cup {DocKey(d)})

TickerFiltered(docs, ticker) ==
    LET tickers_upper == {UpperTicker(ticker[i]) : i \in 1..Len(ticker)}
    IN  SelectIdx(docs, {i \in 1..Len(docs) :
                           UpperTicker(docs[i].company_ticker) \in tickers_upper}, 1)

YearFiltered(docs, year) ==
    SelectIdx(docs, {i \in 1..Len(docs) : PeriodHasYear(docs[i].period_end, year)}, 1)

\* variant: both filters are applied without looking whether anything is left
NarrowDocs_filter_to_empty(docs, ticker, query) ==
    LET byTicker == IF ticker # <<>> THEN TickerFiltered(docs, ticker) ELSE docs
    IN  IF ExtractYear(query) # "" THEN YearFiltered(byTicker, ExtractYear(query))
        ELSE byTicker

\* the "Filter by ticker/year" block, for a non-empty docs
NarrowDocs(docs, ticker, query) ==
    LET byTicker == IF ticker # <<>> /\ TickerFiltered(docs, ticker) # <<>>
                    THEN TickerFiltered(docs, ticker) ELSE docs
        year     == ExtractYear(query)
    IN  IF year # "" /\ YearFiltered(byTicker, year) # <<>>
        THEN YearFiltered(byTicker, year) ELSE byTicker

DocsRun(st) == st.is_financial /\ st.needs_secfiling

\* variant: no filter is ever set
SearchFilter_none(st) == [set |-> FALSE, tickers |-> {}]

\* search_kwargs["filter"]: the admitted company_ticker values; unset when
\* state.ticker is empty
SearchFilter(st) ==
    IF st.ticker # <<>>
    THEN [set |-> TRUE, tickers |-> {UpperTicker(st.ticker[i]) : i \in 1..Len(st.ticker)}]
    ELSE [set |-> FALSE, tickers |-> {}]

\* Chroma's metadata filter: equality, or membership for "$in"
HonoursFilter(docs, filter) ==
    filter.set => \A i \in 1..Len(docs) : docs[i].company_ticker \in filter.tickers

\* the refined retrieval is issued for this first result
RefinedQueryIssued(st, first) ==
    /\ DocsRun(st) /\ first.ok /\ first.docs # <<>>
    /\ LooksUninformative(RerankDocs(NarrowDocs(first.docs, st.ticker, st.query))[1].section_title)

\* retrieve_documents: first and more are the outcomes of the two
\* retriever.invoke calls, [ok |-> TRUE, docs |-> list] or [ok |-> FALSE]
RetrieveDocuments(st, first, more) ==
    IF ~DocsRun(st) THEN [retrieved_docs |-> <<>>]
    ELSE IF ~first.ok THEN [retrieved_docs |-> <<>>]
    ELSE IF first.docs = <<>> THEN [retrieved_docs |-> <<>>]
    ELSE LET docs == RerankDocs(NarrowDocs(first.docs, st.ticker, st.query)) IN
         IF ~LooksUninformative(docs[1].section_title) THEN [retrieved_docs |-> docs]
         ELSE IF ~more.ok THEN [retrieved_docs |-> <<>>]
         ELSE IF more.docs = <<>> THEN [retrieved_docs |-> docs]
         ELSE [retrieved_docs |->
                  FirstN(MergeUnique(docs \o RerankDocs(more.docs), {}), DocCap)]

----------------------------------------------------------------------------
(* generate_final_answer *)

\* `if f_data and "error" not in str(f_data.get("error", ""))`
ShowsBlock(data) ==
    IF data.kind = "error" THEN ~TextHasError(data.error) ELSE TRUE

\* f"{f_data['market_cap']:,.0f}" raises for a market_cap that is no number
FormatRaises(f_data) ==
    /\ ShowsBlock(f_data)
    /\ f_data.kind = "metrics"
    /\ f_data.market_cap = "malformed"

\* the blocks of market_context, in order: per ticker of state.ticker the
\* fundamental block, then the technical block
RECURSIVE MarketParts(_, _)
MarketParts(st, i) ==
    IF i > Len(st.ticker) THEN <<>>
    ELSE LET t == st.ticker[i]
             f == IF t \in DOMAIN st.fundamental_data /\ ShowsBlock(st.fundamental_data[t])
                  THEN <<[block |-> "fundamental", ticker |-> t]>> ELSE <<>>
             k == IF t \in DOMAIN st.technical_data /\ ShowsBlock(st.technical_data[t])
                  THEN <<[block |-> "technical", ticker |-> t]>> ELSE <<>>
         IN  f \o k \o MarketParts(st, i + 1)

\* building market_context raises (outside the try of the LLM call)
SynthesizerRaises(st) ==
    \E i \in 1..Len(st.ticker) :
        /\ st.ticker[i] \in DOMAIN st.fundamental_data
        /\ FormatRaises(st.fundamental_data[st.ticker[i]])

ErrorAnswer == "An error occurred: generation failed"

\* variant: the exception of the generation chain is not caught
GenerateFinalAnswer_uncaught(st, gen) ==
    IF SynthesizerRaises(st) \/ ~gen.ok THEN [raised |-> TRUE, updates |-> << >>]
    ELSE [raised |-> FALSE, updates |-> [answer |-> gen.text]]

\* generate_final_answer: gen is the outcome of chain.invoke,
\* [ok |-> TRUE, text |-> answer] or [ok |-> FALSE]; the result is
\* [raised |-> TRUE] or [raised |-> FALSE, updates |-> the returned dict]
GenerateFinalAnswer(st, gen) ==
    IF SynthesizerRaises(st) THEN [raised |-> TRUE, updates |-> << >>]
    ELSE [raised |-> FALSE,
          updates |-> [answer |-> IF gen.ok THEN gen.text ELSE ErrorAnswer]]

----------------------------------------------------------------------------
(* What the collaborators can return *)

UserTexts == {"aapl news", "its pe"}

\* the message lists a direct caller hands to the graph
DirectMessages ==
    SeqsUpTo({Message("user", t) : t \in UserTexts \cup {""}}
                \cup {Message("assistant", "sure")}, MaxMsgs)

RewriteOutcomes == {[ok |-> TRUE, text |-> "aapl pe"], [ok |-> FALSE, text |-> ""]}

RawTickers == {[kind |-> "none", val |-> <<>>],
               [kind |-> "list", val |-> <<"AAPL">>],
               [kind |-> "list", val |-> <<" aapl ", "TSLA">>]}

\* the dicts whose flags are JSON booleans
LLMDicts ==
    [is_financial : {"True", "False"}, ticker : RawTickers,
     needs_fundamental : {"True", "False"}, needs_technical : {"True", "False"},
     needs_news : {"True", "False"}, needs_secfiling : {"True", "False"}]

\* no dict was obtained
NoResult ==
    [is_financial |-> "absent", ticker |-> [kind |-> "absent", val |-> <<>>],
     needs_fundamental |-> "absent", needs_technical |-> "absent",
     needs_news |-> "absent", needs_secfiling |-> "absent"]

\* the chain's outcomes within the timeout that raise inside the try
LLMFailures ==
    {[kind |-> k, result |-> NoResult] : k \in {"raise", "badjson", "nondict", "jsonlist"}}

\* future.result(timeout=10) raised TimeoutError
LLMTimeout == [kind |-> "timeout", result |-> NoResult]

ClassifierOutcomes == {[kind |-> "dict", result |-> r] : r \in LLMDicts} \cup LLMFailures

FundamentalOutcomes == {Metrics("number"), Metrics("malformed"), ErrorMarker("HTTP Error 404")}

TechnicalOutcomes == {Indicators, ErrorMarker("Insufficient price history")}

A1 == Article("https://a.example/1", "one")
A2 == Article("https://a.example/2", "two")

\* most queries generate_news_queries returns per unit in the model
MaxQueries == 1

SearchResults == {[ok |-> FALSE, docs |-> <<>>],
                  [ok |-> TRUE, docs |-> <<A1, A2>>]}

D1 == Doc("o1", "c1", "aapl_10k.htm", "AAPL", "2023-12-31", "Item 7. Management's Discussion")
D2 == Doc("o2", "c2", "aapl_10k.htm", "AAPL", "2022-12-31", "Item 2. Properties")
D3 == Doc("o3", "c3", "tsla_10k.htm", "TSLA", "2023-12-31", "Item 1A. Risk Factors")
DSig == Doc("o4", "c4", "aapl_10k.htm", "AAPL", "2023-12-31", "Signatures")

FirstRetrievals == {[ok |-> FALSE, docs |-> <<>>]}
                      \cup {[ok |-> TRUE, docs |-> d] : d \in {<<>>, <<D2, D1>>, <<DSig>>}}

RefinedRetrievals == {[ok |-> FALSE, docs |-> <<>>]}
                        \cup {[ok |-> TRUE, docs |-> d] : d \in {<<>>, <<D1, DSig>>}}

GenerationOutcomes == {[ok |-> TRUE, text |-> "generated answer"], [ok |-> FALSE, text |-> ""]}

----------------------------------------------------------------------------
(* event_stream's events *)

Status(step) == [type |-> "status", step |-> step]

\* variant: a status is yielded for every node, resolve_query included
StepEvents_status_for_every_node(node, updates) == <<Status(node)>>

\* what event_stream yields for one step_output
StepEvents(node, updates) ==
    CASE node = "analyze" ->
            <<Status("analyzing_query")>>
               \o (IF updates.ticker # <<>>
                   THEN <<[type |-> "data", ticker |-> updates.ticker]>> ELSE <<>>)
      [] node = "retrieve_docs"     -> <<Status("retrieving_documents")>>
      [] node = "fetch_fundamental" -> <<Status("fetching_fundamental_data")>>
      [] node = "fetch_technical"   -> <<Status("fetching_technical_data")>>
      [] node = "fetch_news"        -> <<Status("fetching_news")>>
      [] node = "generate_answer"   -> <<Status("generating_answer")>>
      [] OTHER -> <<>>

----------------------------------------------------------------------------
(* The graph run *)

NoSession == [exists |-> FALSE]

\* no second request is in flight
NoOther == [phase |-> "none", cs |-> DefaultState]

Init ==
    /\ sessions = NoSession
    /\ mode = "none"
    /\ pc = "idle"
    /\ state = DefaultState
    /\ executed = <<>>
    /\ calls = {}
    /\ failed = {}
    /\ current_state = DefaultState
    /\ events = <<>>
    /\ replies = <<>>
    /\ other = NoOther
    /\ arrived = <<>>

\* one superstep of financial_graph.stream: `node` ran and returned
\* `updates`; in a request, event_stream folds them into current_state and
\* yields the step's events
Superstep(node, updates, called, faults, heard) ==
    /\ state' = DictUpdate(state, updates)
    /\ pc' = IF mode = "unit" THEN "returned" ELSE NextNode(node, DictUpdate(state, updates))
    /\ replies' = IF mode = "unit" THEN heard ELSE replies
    /\ executed' = Append(executed, node)
    /\ calls' = calls \cup called
    /\ failed' = failed \cup faults
    /\ IF mode = "web"
       THEN /\ current_state' = DictUpdate(current_state, updates)
            /\ events' = events \o StepEvents(node, updates)
       ELSE UNCHANGED <<current_state, events>>
    /\ UNCHANGED <<sessions, mode, other, arrived>>

\* the node raised: the exception leaves financial_graph.stream
NodeRaises(node, called, faults) ==
    /\ pc' = "raised"
    /\ executed' = Append(executed, node)
    /\ calls' = calls \cup called
    /\ failed' = failed \cup faults
    /\ UNCHANGED <<sessions, mode, state, current_state, events, replies, other, arrived>>

\* financial_graph.invoke(initial_state): the caller's state holds a message
\* list and possibly a set is_financial, the other fields take their defaults
Invoke ==
    /\ pc = "idle"
    /\ \E msgs \in DirectMessages, fin \in BOOLEAN :
          state' = DictUpdate(DefaultState, [messages |-> msgs, is_financial |-> fin])
    /\ mode' = "direct"
    /\ pc' = "resolve_query"
    /\ executed' = <<>>
    /\ calls' = {}
    /\ failed' = {}
    /\ UNCHANGED <<sessions, current_state, events, replies, other, arrived>>

\* rw is read only on the path that invokes the rewriting chain
Resolve(rewrites) ==
    /\ pc = "resolve_query"
    /\ \E rw \in rewrites :
          LET called == ResolveCallsRewrite(state.messages)
          IN  Superstep("resolve_query", ResolveQueryWithHistory(state.messages, rw),
                        IF called THEN {"rewrite"} ELSE {},
                        IF called /\ ~rw.ok THEN {"rewrite"} ELSE {},
                        IF called THEN <<rw>> ELSE <<>>)

\* analyze_user_query when the chain's call ends within the timeout
Analyze(outcomes) ==
    /\ pc = "analyze"
    /\ \E llm \in outcomes :
          Superstep("analyze", AnalyzeUserQuery(state.query, llm),
                    {"classify"}, IF llm.kind = "dict" THEN {} ELSE {"classify"}, <<llm>>)

\* future.result(timeout=10) raises TimeoutError inside the
\* `with ThreadPoolExecutor(...)` block: leaving the block runs
\* executor.shutdown(wait=True), which joins the worker that is still inside
\* chain.invoke
AnalyzeTimeout ==
    /\ pc = "analyze"
    /\ pc' = "analyze_shutdown"
    /\ calls' = calls \cup {"classify"}
    /\ failed' = failed \cup {"classify"}
    /\ UNCHANGED <<sessions, mode, state, executed, current_state, events, replies, other, arrived>>

\* the outstanding chain.invoke ends (however): shutdown returns, the
\* TimeoutError reaches the handlers and the fallback result is returned
AnalyzeAfterShutdown ==
    /\ pc = "analyze_shutdown"
    /\ Superstep("analyze", AnalyzeUserQuery(state.query, LLMTimeout),
                 {"classify"}, {"classify"}, <<LLMTimeout>>)

FetchFundamental(outcomes) ==
    /\ pc = "fetch_fundamental"
    /\ IF FundamentalRuns(state)
       THEN \E outs \in [1..Len(state.ticker) -> outcomes] :
               Superstep("fetch_fundamental", FetchFundamentalData(state, outs),
                         {"market_fundamental"},
                         IF \E i \in DOMAIN outs : outs[i].kind = "error"
                         THEN {"market_fundamental"} ELSE {}, outs)
       ELSE Superstep("fetch_fundamental", FetchFundamentalData(state, <<>>), {}, {}, <<>>)

FetchTechnical(outcomes) ==
    /\ pc = "fetch_technical"
    /\ IF TechnicalRuns(state)
       THEN \E outs \in [1..Len(state.ticker) -> outcomes] :
               Superstep("fetch_technical", FetchTechnicalData(state, outs),
                         {"market_technical"},
                         IF \E i \in DOMAIN outs : outs[i].kind = "error"
                         THEN {"market_technical"} ELSE {}, outs)
       ELSE Superstep("fetch_technical", FetchTechnicalData(state, <<>>), {}, {}, <<>>)

\* what one unit of fetch_news can meet: the query generation fails, or it
\* returns up to nq queries, each with the outcome of its search
NewsUnitOutcomes(results, nq) ==
    {[gen_ok |-> FALSE, searches |-> <<>>]}
        \cup {[gen_ok |-> TRUE, searches |-> ss] : ss \in SeqsUpTo(results, nq)}

FetchNewsStep(results, nq) ==
    /\ pc = "fetch_news"
    /\ IF NewsRuns(state)
       THEN \E plan \in [1..NewsUnits(state) -> NewsUnitOutcomes(results, nq)] :
               Superstep("fetch_news", FetchNews(state, plan),
                         {"news_queries"}
                            \cup (IF \E u \in DOMAIN plan : GeneratedQueries(plan[u]) # <<>>
                                  THEN {"news_search"} ELSE {}),
                         (IF \E u \in DOMAIN plan : ~plan[u].gen_ok
                          THEN {"news_queries"} ELSE {})
                            \cup (IF \E u \in DOMAIN plan :
                                      \E q \in DOMAIN GeneratedQueries(plan[u]) :
                                         ~GeneratedQueries(plan[u])[q].ok
                                  THEN {"news_search"} ELSE {}),
                         plan)
       ELSE Superstep("fetch_news", FetchNews(state, <<>>), {}, {}, <<>>)

\* the retriever returns only passages that satisfy the metadata filter it
\* was built with
RetrieveDocs(firsts, refineds) ==
    /\ pc = "retrieve_docs"
    /\ IF DocsRun(state)
       THEN \E first \in firsts :
               /\ HonoursFilter(first.docs, SearchFilter(state))
               /\ IF RefinedQueryIssued(state, first)
                  THEN \E more \in refineds :
                          /\ HonoursFilter(more.docs, SearchFilter(state))
                          /\ Superstep("retrieve_docs", RetrieveDocuments(state, first, more),
                                       {"doc_search", "doc_search_refined"},
                                       IF more.ok THEN {} ELSE {"doc_search_refined"},
                                       <<first, more>>)
                  ELSE Superstep("retrieve_docs",
                                 RetrieveDocuments(state, first, [ok |-> FALSE, docs |-> <<>>]),
                                 {"doc_search"}, IF first.ok THEN {} ELSE {"doc_search"},
                                 <<first>>)
       ELSE Superstep("retrieve_docs",
                      RetrieveDocuments(state, [ok |-> FALSE, docs |-> <<>>],
                                        [ok |-> FALSE, docs |-> <<>>]), {}, {}, <<>>)

GenerateAnswer(generations) ==
    /\ pc = "generate_answer"
    /\ \E gen \in generations :
          LET r      == GenerateFinalAnswer(state, gen)
              called == IF SynthesizerRaises(state) THEN {} ELSE {"generate"}
              faults == IF ~SynthesizerRaises(state) /\ ~gen.ok THEN {"generate"} ELSE {}
          IN  IF r.raised
              THEN NodeRaises("generate_answer", called, faults)
              ELSE Superstep("generate_answer", r.updates, called, faults, <<gen>>)

\* the direct caller has its result (or the exception): the run is over
Return ==
    /\ mode = "direct"
    /\ pc \in {"END", "raised"}
    /\ pc' = "idle"
    /\ mode' = "none"
    /\ state' = DefaultState
    /\ executed' = <<>>
    /\ calls' = {}
    /\ failed' = {}
    /\ UNCHANGED <<sessions, current_state, events, replies, other, arrived>>

Next ==
    \/ Invoke
    \/ Resolve(RewriteOutcomes)
    \/ Analyze(ClassifierOutcomes)
    \/ AnalyzeTimeout
    \/ AnalyzeAfterShutdown
    \/ FetchFundamental(FundamentalOutcomes)
    \/ FetchTechnical(TechnicalOutcomes)
    \/ FetchNewsStep(SearchResults, MaxQueries)
    \/ RetrieveDocs(FirstRetrievals, RefinedRetrievals)
    \/ GenerateAnswer(GenerationOutcomes)
    \/ Return

Spec == Init /\ [][Next]_vars

----------------------------------------------------------------------------
(* The session endpoint: ask_with_session_stream and its event_stream *)

\* the record a new session id gets
InitialSession ==
    [messages |-> <<>>, query |-> "", ticker |-> <<>>, is_financial |-> FALSE,
     needs_fundamental |-> FALSE, needs_technical |-> FALSE,
     fundamental_data |-> EmptyMap, technical_data |-> EmptyMap,
     news_articles |-> <<>>, retrieved_docs |-> <<>>, answer |-> ""]

\* the collaborator outcomes drawn in the requests of the session model
SessionClassifierOutcomes ==
    LET D(fin, tk, f, t, n, s) ==
            LET B(x) == IF x THEN "True" ELSE "False" IN
            [kind |-> "dict",
             result |-> [is_financial |-> B(fin), ticker |-> tk,
                         needs_fundamental |-> B(f), needs_technical |-> B(t),
                         needs_news |-> B(n), needs_secfiling |-> B(s)]]
        aapl == [kind |-> "list", val |-> <<"AAPL">>]
        both == [kind |-> "list", val |-> <<" aapl ", "TSLA">>]
        none == [kind |-> "none", val |-> <<>>]
    IN  {D(TRUE, aapl, TRUE, FALSE, FALSE, FALSE),
         D(TRUE, aapl, FALSE, FALSE, TRUE, FALSE),
         D(TRUE, both, TRUE, TRUE, TRUE, TRUE),
         D(TRUE, both, FALSE, TRUE, FALSE, TRUE),
         D(FALSE, none, FALSE, FALSE, FALSE, FALSE),
         D(FALSE, aapl, TRUE, FALSE, TRUE, FALSE)}

SessionFundamentalOutcomes == {Metrics("number"), Metrics("malformed")}
SessionTechnicalOutcomes == {Indicators}
SessionSearchResults == {[ok |-> TRUE, docs |-> <<A1, A2>>]}
SessionFirstRetrievals == {[ok |-> TRUE, docs |-> <<D2, D1>>]}
SessionRefinedRetrievals == {[ok |-> TRUE, docs |-> <<>>]}

\* POST /ask-session-stream up to the start of the stream: the session is
\* created if needed, the user message appended, and the graph started on
\* a copy of the session record
Ask ==
    /\ pc = "idle"
    /\ \E message \in UserTexts :
          LET s0 == IF sessions = NoSession THEN InitialSession ELSE sessions
              s1 == [s0 EXCEPT !.messages = Append(@, Message("user", message))]
          IN  /\ Len(s0.messages) < MaxTurns
              /\ sessions' = s1
              /\ state' = DictUpdate(DefaultState, s1)
              /\ current_state' = s1
              /\ arrived' = Append(arrived, message)
    /\ mode' = "web"
    /\ pc' = "resolve_query"
    /\ executed' = <<>>
    /\ calls' = {}
    /\ failed' = {}
    /\ events' = <<>>
    /\ UNCHANGED <<replies, other>>

\* the done event's market_data: only the non-empty maps
MarketData(cs) ==
    [k \in {x \in {"fundamental", "technical"} :
               \/ x = "fundamental" /\ DOMAIN cs.fundamental_data # {}
               \/ x = "technical" /\ DOMAIN cs.technical_data # {}}
        |-> IF k = "fundamental" THEN cs.fundamental_data ELSE cs.technical_data]

DoneEvent(cs) ==
    [type |-> "done", answer |-> cs.answer, ticker |-> cs.ticker,
     market_data |-> MarketData(cs)]

\* the stream is exhausted: the session takes current_state, done is yielded
Finish ==
    /\ mode = "web"
    /\ pc = "END"
    /\ sessions' = DictUpdate(sessions, current_state)
    /\ events' = Append(events, DoneEvent(current_state))
    /\ pc' = "idle"
    /\ mode' = "none"
    /\ state' = DefaultState
    /\ current_state' = DefaultState
    /\ executed' = <<>>
    /\ calls' = {}
    /\ failed' = {}
    /\ UNCHANGED <<replies, other, arrived>>

\* variant: the except branch stores the partial state in the session
Fail_writes_back ==
    /\ mode = "web"
    /\ pc = "raised"
    /\ sessions' = DictUpdate(sessions, current_state)
    /\ events' = Append(events, [type |-> "error"])
    /\ pc' = "idle"
    /\ mode' = "none"
    /\ state' = DefaultState
    /\ current_state' = DefaultState
    /\ executed' = <<>>
    /\ calls' = {}
    /\ failed' = {}
    /\ UNCHANGED <<replies, other, arrived>>

\* `except Exception`: the error event is yielded, the session is not updated
Fail ==
    /\ mode = "web"
    /\ pc = "raised"
    /\ events' = Append(events, [type |-> "error"])
    /\ pc' = "idle"
    /\ mode' = "none"
    /\ state' = DefaultState
    /\ current_state' = DefaultState
    /\ executed' = <<>>
    /\ calls' = {}
    /\ failed' = {}
    /\ UNCHANGED <<sessions, replies, other, arrived>>

NextSession ==
    \/ Ask
    \/ Resolve(RewriteOutcomes)
    \/ Analyze(SessionClassifierOutcomes)
    \/ AnalyzeTimeout
    \/ AnalyzeAfterShutdown
    \/ FetchFundamental(SessionFundamentalOutcomes)
    \/ FetchTechnical(SessionTechnicalOutcomes)
    \/ FetchNewsStep(SessionSearchResults, MaxQueries)
    \/ RetrieveDocs(SessionFirstRetrievals, SessionRefinedRetrievals)
    \/ GenerateAnswer(GenerationOutcomes)
    \/ Finish
    \/ Fail

SpecSession == Init /\ [][NextSession]_vars

----------------------------------------------------------------------------
(* Two requests on one session at the same time *)

\* The handler ask_with_session_stream has no await: it runs from its first
\* line to `return StreamingResponse(...)` in one piece.  event_stream runs
\* later, when the response is iterated, and gives the event loop the chance
\* to serve another request at each of its yields (resolve_query yields
\* nothing, so the stream's start, resolve_query and analyze run in one
\* piece).  One request is followed node by node; of the second one only what
\* it does to the session is followed.

\* variant: the copies own their message list (a deep copy)
SharedMessages_deep_copy(copy, session) == copy

\* dict.copy() is shallow and no node returns a "messages" update: the
\* "messages" of inputs, of the graph's channel and of current_state are the
\* session's own list object, so an append to the session's list shows in
\* each of them
SharedMessages(copy, session) == [copy EXCEPT !.messages = session.messages]

\* the stream is between two of its steps
YieldPoint ==
    pc \in {"idle", "accepted", "fetch_fundamental", "fetch_technical", "fetch_news",
            "retrieve_docs", "generate_answer", "END"}

\* event_stream of the followed request has taken its current_state
Streaming == mode = "web" /\ pc # "accepted"

\* the node updates the second request's stream folds into its current_state
OtherUpdates ==
    {[query |-> "aapl pe", ticker |-> <<"AAPL">>, is_financial |-> TRUE,
      answer |-> "generated answer"],
     [query |-> "aapl pe", ticker |-> <<>>, is_financial |-> FALSE,
      answer |-> ErrorAnswer]}

\* the handler of the followed request: session created if needed, message
\* appended, inputs copied
Accept ==
    /\ pc = "idle"
    /\ \E message \in UserTexts :
          LET s0 == IF sessions = NoSession THEN InitialSession ELSE sessions
              s1 == [s0 EXCEPT !.messages = Append(@, Message("user", message))]
          IN  /\ Len(s0.messages) < MaxTurns
              /\ sessions' = s1
              /\ state' = DictUpdate(DefaultState, s1)
              /\ arrived' = Append(arrived, message)
              /\ other' = IF other.phase = "streaming"
                          THEN [other EXCEPT !.cs = SharedMessages(@, s1)] ELSE other
    /\ mode' = "web"
    /\ pc' = "accepted"
    /\ executed' = <<>>
    /\ calls' = {}
    /\ failed' = {}
    /\ events' = <<>>
    /\ UNCHANGED <<current_state, replies>>

\* event_stream starts: current_state is copied from the session as it is now
StartStream ==
    /\ mode = "web"
    /\ pc = "accepted"
    /\ current_state' = sessions
    /\ pc' = "resolve_query"
    /\ UNCHANGED <<sessions, mode, state, executed, calls, failed, events, replies, other,
                   arrived>>

\* the handler of the second request
OtherAccept ==
    /\ YieldPoint
    /\ other.phase = "none"
    /\ \E message \in UserTexts :
          LET s0 == IF sessions = NoSession THEN InitialSession ELSE sessions
              s1 == [s0 EXCEPT !.messages = Append(@, Message("user", message))]
          IN  /\ Len(s0.messages) < MaxTurns
              /\ sessions' = s1
              /\ arrived' = Append(arrived, message)
              /\ state' = IF mode = "web" THEN SharedMessages(state, s1) ELSE state
              /\ current_state' = IF Streaming THEN SharedMessages(current_state, s1)
                                  ELSE current_state
    /\ other' = [phase |-> "accepted", cs |-> DefaultState]
    /\ UNCHANGED <<mode, pc, executed, calls, failed, events, replies>>

\* the second request's event_stream starts
OtherStart ==
    /\ YieldPoint
    /\ other.phase = "accepted"
    /\ other' = [phase |-> "streaming", cs |-> sessions]
    /\ UNCHANGED <<sessions, mode, pc, state, executed, calls, failed, current_state, events,
                   replies, arrived>>

\* the second request's stream is exhausted: its current_state, with the
\* updates of its nodes, is written to the session
OtherFinish ==
    /\ YieldPoint
    /\ other.phase = "streaming"
    /\ \E upd \in OtherUpdates :
          sessions' = DictUpdate(sessions, DictUpdate(other.cs, upd))
    /\ other' = NoOther
    /\ UNCHANGED <<mode, pc, state, executed, calls, failed, current_state, events, replies,
                   arrived>>

NextConcurrent ==
    \/ Accept
    \/ StartStream
    \/ Resolve(RewriteOutcomes)
    \/ Analyze(SessionClassifierOutcomes)
    \/ AnalyzeTimeout
    \/ AnalyzeAfterShutdown
    \/ FetchFundamental(SessionFundamentalOutcomes)
    \/ FetchTechnical(SessionTechnicalOutcomes)
    \/ FetchNewsStep(SessionSearchResults, MaxQueries)
    \/ RetrieveDocs(SessionFirstRetrievals, SessionRefinedRetrievals)
    \/ GenerateAnswer(GenerationOutcomes)
    \/ Finish
    \/ Fail
    \/ OtherAccept
    \/ OtherStart
    \/ OtherFinish

SpecConcurrent == Init /\ [][NextConcurrent]_vars

----------------------------------------------------------------------------
(* The node functions called on their own *)

\* most queries generate_news_queries returns per unit when fetch_news is
\* called on its own
UnitMaxQueries == 2

\* the node functions, and "narrow_docs": the "Filter by ticker/year" block
\* of retrieve_documents run on a list of its own
UnitNodes == {"analyze", "fetch_fundamental", "fetch_technical", "fetch_news",
              "retrieve_docs", "generate_answer", "narrow_docs"}

UnitQueries == {"", "aapl news", "its pe", "the 10-k", "AAPL price", "buy F", "is on",
                "security headline"}

UnitTickers == {<<>>, <<"AAPL">>, <<"AAPL", "TSLA">>, <<"AAPL", "AAPL">>}

\* the per-ticker entries the Synthesizer is handed: records and error
\* markers with several messages
UnitFundamentalEntries ==
    {Metrics("number"), Metrics("none"), ErrorMarker("HTTP Error 404"),
     ErrorMarker("Connection error"), ErrorMarker("")}

UnitTechnicalEntries ==
    {Indicators, ErrorMarker("Insufficient price history"), ErrorMarker("Connection error")}

DLow == Doc("o8", "c8", "aapl_10k.htm", "aapl", "", "Cover Page")

\* the non-empty lists the narrowing block is run on
NarrowInputDocs ==
    {<<D1>>, <<D2>>, <<D3>>, <<D2, D1>>, <<D1, D3>>, <<D2, D3>>, <<D3, D2, D1>>, <<DLow, D3>>,
     <<DLow>>}

\* the states a node function is called with: the fields it reads vary, the
\* others are at their defaults
UnitInputs(node) ==
    CASE node = "analyze" ->
            {DictUpdate(DefaultState, [query |-> q]) : q \in UnitQueries}
      [] node = "fetch_fundamental" ->
            {DictUpdate(DefaultState, [is_financial |-> f, needs_fundamental |-> n, ticker |-> t]) :
                f \in BOOLEAN, n \in BOOLEAN, t \in UnitTickers}
      [] node = "fetch_technical" ->
            {DictUpdate(DefaultState, [is_financial |-> f, needs_technical |-> n, ticker |-> t]) :
                f \in BOOLEAN, n \in BOOLEAN, t \in UnitTickers}
      [] node = "fetch_news" ->
            {DictUpdate(DefaultState, [is_financial |-> f, needs_news |-> n, ticker |-> t]) :
                f \in BOOLEAN, n \in BOOLEAN, t \in UnitTickers}
      [] node = "retrieve_docs" ->
            {DictUpdate(DefaultState, [is_financial |-> f, needs_secfiling |-> n, ticker |-> t,
                                       query |-> q]) :
                f \in BOOLEAN, n \in BOOLEAN, t \in UnitTickers, q \in {"aapl pe", "aapl 2023"}}
      [] node = "narrow_docs" ->
            {DictUpdate(DefaultState, [is_financial |-> TRUE, needs_secfiling |-> TRUE,
                                       ticker |-> t, query |-> q, retrieved_docs |-> d]) :
                t \in {<<>>, <<"AAPL">>, <<"TSLA">>, <<"AAPL", "TSLA">>},
                q \in {"aapl pe", "aapl 2023", "aapl 2100"}, d \in NarrowInputDocs}
      [] node = "generate_answer" ->
            UNION {{DictUpdate(DefaultState, [query |-> "aapl pe", ticker |-> t,
                                              fundamental_data |-> fd, technical_data |-> td]) :
                       fd \in [Range(t) -> UnitFundamentalEntries] \cup {EmptyMap},
                       td \in [Range(t) -> UnitTechnicalEntries] \cup {EmptyMap}} :
                   t \in {<<"AAPL">>, <<"AAPL", "TSLA">>}}

UnitRawTickers ==
    RawTickers \cup {[kind |-> "list", val |-> <<"AAPL", "aapl">>],
                     [kind |-> "absent", val |-> <<>>],
                     [kind |-> "str", val |-> <<" aapl ">>],
                     [kind |-> "str", val |-> <<" ">>],
                     [kind |-> "list", val |-> <<"", "TSLA">>],
                     [kind |-> "other", val |-> <<>>]}

\* dicts with missing keys and wrongly typed values
UnitLLMDicts ==
    [is_financial : {"True", "False", "absent", "None", "'false'"},
     ticker : UnitRawTickers,
     needs_fundamental : {"True", "False", "absent"},
     needs_technical : {"True", "False", "absent"},
     needs_news : {"True", "False", "absent", "None", "'false'"},
     needs_secfiling : {"True", "False", "absent"}]

UnitClassifierOutcomes == {[kind |-> "dict", result |-> r] : r \in UnitLLMDicts} \cup LLMFailures

N1 == Article("https://n.example/1", "first")
N2 == Article("https://n.example/2", "second")
N3 == Article("https://n.example/3", "third")
N3again == Article("https://n.example/3", "third, syndicated")
N4 == Article("https://n.example/4", "fourth")
N5 == Article("https://n.example/5", "fifth")
N6 == Article("https://n.example/6", "sixth")
N1again == Article("https://n.example/1", "first, syndicated")
NoLink == Article("", "no link")

UnitSearchResults ==
    {[ok |-> FALSE, docs |-> <<>>]}
        \cup {[ok |-> TRUE, docs |-> d] :
                 d \in {<<>>, <<N1, N2, N3>>, <<N3again, N4, N5>>, <<N6, NoLink, N1again>>}}

DSigT == Doc("o5", "c5", "tsla_10k.htm", "TSLA", "2023-12-31", "Signatures")
DExh == Doc("o6", "c6", "aapl_10k.htm", "AAPL", "2023-12-31", "Exhibit Index")
D16 == Doc("o7", "c7", "aapl_10k.htm", "AAPL", "2023-12-31", "Item 16. Form 10-K Summary")

\* passages returned without a Document.id (the store's wrapper does not
\* always set one): chunks of one filing share metadata["source_file"]
D16NoId == Doc("o10", "", "aapl_10k.htm", "AAPL", "2023-12-31", "Item 16. Form 10-K Summary")
DSigNoId == Doc("o11", "", "aapl_10k.htm", "AAPL", "2023-12-31", "Signatures")
D1NoId == Doc("o12", "", "aapl_10k.htm", "AAPL", "2023-12-31", "Item 7. Management's Discussion")

\* a result longer than the k of search_kwargs: the code asks the store for
\* k = 8 passages and takes the list it gets without looking at its length
PassageIds == <<"p1", "p2", "p3", "p4", "p5", "p6", "p7", "p8", "p9">>
LongRetrieval ==
    [i \in 1..Len(PassageIds) |->
        Doc(PassageIds[i], PassageIds[i], "aapl_10k.htm", "AAPL", "2023-12-31",
            "Item 7. Management's Discussion")]

UnitFirstRetrievals ==
    {[ok |-> FALSE, docs |-> <<>>]}
        \cup {[ok |-> TRUE, docs |-> d] :
                 d \in {<<>>, <<D2, D1>>, <<DSig>>, <<DSig, D3>>, <<DSig, D2>>, <<D3, DSigT>>,
                        <<DExh>>, <<D16, DSig>>, <<D16NoId, DSigNoId>>, LongRetrieval}}

UnitRefinedRetrievals ==
    {[ok |-> FALSE, docs |-> <<>>]}
        \cup {[ok |-> TRUE, docs |-> d] : d \in {<<>>, <<D1, DSig>>, <<D3, D1>>, <<D1NoId>>}}

\* node(state) is called with a state built by the caller
CallNode ==
    /\ pc = "idle"
    /\ \E node \in UnitNodes :
          /\ pc' = node
          /\ \E st \in UnitInputs(node) : state' = st
    /\ mode' = "unit"
    /\ executed' = <<>>
    /\ calls' = {}
    /\ failed' = {}
    /\ replies' = <<>>
    /\ UNCHANGED <<sessions, current_state, events, other, arrived>>

\* the narrowing block: docs is replaced by the narrowed list
NarrowStep ==
    /\ pc = "narrow_docs"
    /\ Superstep("narrow_docs",
                 [retrieved_docs |-> NarrowDocs(state.retrieved_docs, state.ticker, state.query)],
                 {}, {}, <<[ok |-> TRUE, docs |-> state.retrieved_docs]>>)

\* the caller has the node's update
UnitReturn ==
    /\ mode = "unit"
    /\ pc = "returned"
    /\ pc' = "idle"
    /\ mode' = "none"
    /\ state' = DefaultState
    /\ executed' = <<>>
    /\ calls' = {}
    /\ failed' = {}
    /\ replies' = <<>>
    /\ UNCHANGED <<sessions, current_state, events, other, arrived>>

NextNodes ==
    \/ CallNode
    \/ Analyze(UnitClassifierOutcomes)
    \/ AnalyzeTimeout
    \/ AnalyzeAfterShutdown
    \/ FetchFundamental(FundamentalOutcomes)
    \/ FetchTechnical(TechnicalOutcomes)
    \/ FetchNewsStep(UnitSearchResults, UnitMaxQueries)
    \/ RetrieveDocs(UnitFirstRetrievals, UnitRefinedRetrievals)
    \/ GenerateAnswer(GenerationOutcomes)
    \/ NarrowStep
    \/ UnitReturn

SpecNodes == Init /\ [][NextNodes]_vars

----------------------------------------------------------------------------
(* Properties *)

Fetchers == <<"fetch_fundamental", "fetch_technical", "fetch_news", "retrieve_docs">>

NeedFlag(st, node) ==
    CASE node = "fetch_fundamental" -> st.needs_fundamental
      [] node = "fetch_technical"   -> st.needs_technical
      [] node = "fetch_news"        -> st.needs_news
      [] node = "retrieve_docs"     -> st.needs_secfiling

OutputField(st, node) ==
    CASE node = "fetch_fundamental" -> st.fundamental_data
      [] node = "fetch_technical"   -> st.technical_data
      [] node = "fetch_news"        -> st.news_articles
      [] node = "retrieve_docs"     -> st.retrieved_docs

Count(node) == Cardinality({i \in 1..Len(executed) : executed[i] = node})

RunOver == pc \in {"END", "raised"}

\* the fetchers whose flag is set, in the order fundamental, technical,
\* news, documents
FlaggedFetchers(st) ==
    SelectIdx(Fetchers, {i \in 1..Len(Fetchers) : NeedFlag(st, Fetchers[i])}, 1)

ExpectedPath(st) ==
    <<"resolve_query", "analyze">> \o FlaggedFetchers(st) \o <<"generate_answer">>

\* C1: in every run, a fetcher whose need-flag is true executes exactly
\* once, a fetcher whose need-flag is false never executes, and
\* generate_answer executes exactly once, as the last node, after every
\* need-flagged fetcher.
C1_NeededFetchersOnceThenSynthesize ==
    /\ \A i \in 1..Len(Fetchers) :
          LET f == Fetchers[i] IN
          /\ Count(f) <= 1
          /\ Count(f) = 1 => Count("analyze") = 1 /\ NeedFlag(state, f)
          /\ RunOver => Count(f) = (IF NeedFlag(state, f) THEN 1 ELSE 0)
    /\ Count("generate_answer") <= 1
    /\ RunOver => Count("generate_answer") = 1
    /\ \A k \in 1..Len(executed) :
          executed[k] = "generate_answer" =>
             /\ k = Len(executed)
             /\ \A i \in 1..Len(Fetchers) :
                   NeedFlag(state, Fetchers[i]) =>
                      \E j \in 1..(k - 1) : executed[j] = Fetchers[i]

C1_Witness ==
    /\ pc = "END"
    /\ state.needs_fundamental /\ ~state.needs_technical
    /\ state.needs_news /\ ~state.needs_secfiling
    /\ executed = <<"resolve_query", "analyze", "fetch_fundamental", "fetch_news",
                    "generate_answer">>

\* C2: once analyze has run, the nodes executed so far are a prefix of
\* resolve_query, analyze, the need-flagged fetchers in the order
\* fundamental, technical, news, documents, generate_answer, and the node the
\* router runs next is the next one of that path: synthesize as soon as no
\* later need-flagged fetcher remains.
C2_FixedPriorityChain ==
    Len(executed) >= 2 =>
        LET path == ExpectedPath(state) IN
        /\ Len(executed) <= Len(path)
        /\ executed = SubSeq(path, 1, Len(executed))
        /\ IF RunOver THEN Len(executed) = Len(path)
           ELSE Len(executed) < Len(path) /\ pc = path[Len(executed) + 1]

C2_Witness ==
    /\ pc = "generate_answer"
    /\ state.needs_technical /\ state.needs_news /\ ~state.needs_secfiling
    /\ executed = <<"resolve_query", "analyze", "fetch_technical", "fetch_news">>

\* C3: at the end of every run, also in the second and later requests of a
\* session, a fetcher whose need-flag is false has its output field at the
\* empty default.
C3_UnneededOutputEmpty ==
    pc = "END" =>
        \A i \in 1..Len(Fetchers) :
            ~NeedFlag(state, Fetchers[i]) =>
                OutputField(state, Fetchers[i]) = OutputField(DefaultState, Fetchers[i])

\* C4: at the start of every invocation in a session every state field
\* other than messages is at its default.
C4_FreshStatePerInvocation ==
    (mode = "web" /\ pc = "resolve_query") =>
        state = DictUpdate(DefaultState, [messages |-> state.messages])

\* C5: no node raises to the router, whatever the collaborators return.
C5_NoNodeRaises == pc # "raised"

\* C6: when the generation chain fails the Synthesizer's answer is the
\* literal error string, and every run ends with the answer written by the
\* Synthesizer.
C6_EveryRunEndsWithAnswer ==
    RunOver =>
        /\ pc = "END"
        /\ executed[Len(executed)] = "generate_answer"
        /\ state.answer = (IF "generate" \in failed THEN ErrorAnswer ELSE "generated answer")

\* the behaviour of the except branch alone: a failed generation call never
\* raises and leaves the error string as the answer
GenerationFailureYieldsErrorAnswer ==
    "generate" \in failed => pc = "END" /\ state.answer = ErrorAnswer

\* the message lists on which the Resolver's first two returns apply
NoUserTurn(messages) == \A i \in 1..Len(messages) : messages[i].role # "user"

Resolved == pc = "analyze" /\ executed = <<"resolve_query">>

\* C7: for messages with no turn or no user-role turn the Resolver yields
\* query = "" and is_financial = FALSE and does not call the rewriting
\* collaborator.
C7_NoUserTurnEmptyQuery ==
    (Resolved /\ NoUserTurn(state.messages)) =>
        /\ state.query = ""
        /\ state.is_financial = FALSE
        /\ "rewrite" \notin calls

C7_Witness ==
    /\ Resolved
    /\ state.messages = <<Message("assistant", "sure"), Message("assistant", "sure")>>
    /\ state.query = ""

\* C8 as stated: for exactly one turn, whatever its role, the query is that
\* turn's text and no rewrite call is made.
C8_SingleTurnAnyRole ==
    (Resolved /\ Len(state.messages) = 1) =>
        /\ state.query = state.messages[1].content
        /\ "rewrite" \notin calls

\* C8 amended: for exactly one turn no rewrite call is made, and when that
\* turn has role user the query is its text; a single turn of another role
\* yields the empty query.
C8_SingleUserTurnVerbatim ==
    (Resolved /\ Len(state.messages) = 1) =>
        /\ "rewrite" \notin calls
        /\ state.query = (IF state.messages[1].role = "user"
                          THEN state.messages[1].content ELSE "")

C8_Witness ==
    /\ Resolved
    /\ state.messages = <<Message("user", "aapl news")>>
    /\ state.query = "aapl news"

\* C9: with two or more turns, when the rewriting collaborator fails the
\* query is the unmodified text of the latest user turn, and the Resolver
\* does not raise.
C9_RewriteFailureFallsBack ==
    ("rewrite" \in failed /\ Len(executed) = 1) =>
        /\ pc \in {"analyze", "analyze_shutdown"}
        /\ Len(state.messages) >= 2
        /\ state.query = state.messages[LatestUserIdx(state.messages)].content

C9_Witness ==
    /\ Resolved
    /\ "rewrite" \in failed
    /\ state.messages = <<Message("user", "its pe"), Message("assistant", "sure")>>
    /\ state.query = "its pe"

\* C10: when the Resolver yields the empty query and marks the state
\* not-financial, the run ends with is_financial = FALSE, all need-flags
\* FALSE and no fetcher executed, whatever the classification collaborator
\* returns.
C10_EmptyQueryNothingToDo ==
    (RunOver /\ (state.messages = <<>> \/ NoLatestUserMsg(state.messages))) =>
        /\ ~state.is_financial
        /\ \A i \in 1..Len(Fetchers) :
              ~NeedFlag(state, Fetchers[i]) /\ Count(Fetchers[i]) = 0

\* the Classifier, called on its own, has returned
Classified == mode = "unit" /\ executed = <<"analyze">>

\* the six fields of the Classifier's record, as the state holds them
Flags(st) ==
    [is_financial |-> st.is_financial, ticker |-> st.ticker,
     needs_fundamental |-> st.needs_fundamental, needs_technical |-> st.needs_technical,
     needs_news |-> st.needs_news, needs_secfiling |-> st.needs_secfiling]

\* C11: whatever the extraction collaborator does (a dict with missing or
\* wrongly typed keys, an exception, a timeout, unparseable or non-object
\* output) the Classifier returns, without raising, a record whose five
\* flags are booleans and whose ticker is a list; when the primary path
\* failed the record is the regex fallback's.
C11_ClassifierAlwaysPopulated ==
    Classified =>
        /\ pc = "returned"
        /\ \A k \in {"is_financial", "needs_fundamental", "needs_technical",
                      "needs_news", "needs_secfiling"} : state[k] \in BOOLEAN
        /\ DOMAIN state.ticker = 1..Len(state.ticker)
        /\ "classify" \in failed <=> replies[1].kind # "dict"
        /\ "classify" \in failed => Flags(state) = FallbackResult(state.query)

C11_Witness ==
    /\ Classified
    /\ replies[1].kind = "dict"
    /\ replies[1].result.is_financial = "absent"
    /\ replies[1].result.needs_news = "'false'"
    /\ replies[1].result.ticker.kind = "other"
    /\ state.is_financial = FALSE
    /\ state.needs_news = TRUE
    /\ state.ticker = <<>>

\* C12: once the timeout has fired the Classifier does not wait for the
\* outstanding extraction call: it is never found waiting for that call to
\* end.
C12_TimeoutReturnsWithoutWaiting == pc # "analyze_shutdown"

\* "news" or "headline" occurs in the query
MentionsNews(query) == \E w \in Range(TextWords(query)) : WordHasNews(w)
\* "sec" or "10-" occurs in the query
MentionsFiling(query) == \E w \in Range(TextWords(query)) : WordHasSec(w)

UppercaseTokens(w) ==
    CASE w = "AAPL" -> <<"AAPL">>
      [] w = "F"    -> <<"F">>
      [] OTHER      -> <<>>

\* the 1 to 5 letter uppercase tokens of the query that are no stopword
CandidateTickers(query) ==
    LET ws == TextWords(query)
        ts == Flatten([i \in 1..Len(ws) |-> UppercaseTokens(ws[i])])
    IN  SelectIdx(ts, {i \in 1..Len(ts) : ts[i] \notin common_words}, 1)

\* C14: in the fallback the returned tickers are exactly the 1 to 5 letter
\* uppercase tokens of the query that are not stopwords, single letters
\* included, and no token that is not uppercase in the query.
C14_FallbackTickersAreUppercaseTokens ==
    (Classified /\ "classify" \in failed) =>
        state.ticker = CandidateTickers(state.query)

\* the all-uppercase strings among the symbols of the model
UppercaseSymbols ==
    {"AAPL", "TSLA", "NEWS", "ITS", "PE", "PRICE", "BUY", "SURE", "K", "F"}

\* C15: after the Classifier has run, every element of the ticker list is
\* uppercase and the elements are pairwise distinct.
C15_TickersNormalized ==
    Classified =>
        /\ \A i \in 1..Len(state.ticker) : state.ticker[i] \in UppercaseSymbols
        /\ \A i, j \in 1..Len(state.ticker) : i # j => state.ticker[i] # state.ticker[j]

\* the fetcher `node`, called on its own, has returned
Fetched(node) == mode = "unit" /\ executed = <<node>>

TickerScoped == {"fetch_fundamental", "fetch_technical"}

\* the conditions under which the fetcher is to return its empty default
ShortCircuits(st, node) ==
    \/ ~st.is_financial
    \/ ~NeedFlag(st, node)
    \/ node \in TickerScoped /\ st.ticker = <<>>

\* C16: a fetcher returns its empty default and calls no collaborator when
\* is_financial is false or its need-flag is false, the fundamental and
\* technical fetchers also when the ticker list is empty; otherwise it runs
\* (the news and document fetchers also with an empty ticker list).
C16_GuardsShortCircuit ==
    \A i \in 1..Len(Fetchers) :
        LET f == Fetchers[i] IN
        Fetched(f) =>
            IF ShortCircuits(state, f)
            THEN OutputField(state, f) = OutputField(DefaultState, f) /\ calls = {}
            ELSE calls # {}

C16_Witness ==
    /\ Fetched("fetch_news")
    /\ state.ticker = <<>>
    /\ state.is_financial /\ state.needs_news
    /\ "news_search" \in calls
    /\ state.news_articles # <<>>

\* C17: when the fundamental or technical fetcher runs, its output map has
\* exactly the requested tickers as keys and each ticker's entry is a value
\* the market-data call returned for that very ticker: an error marker only
\* for a ticker whose call failed, the returned record otherwise.
C17_PerTickerIsolation ==
    \A f \in TickerScoped :
        (Fetched(f) /\ calls # {}) =>
            LET data == OutputField(state, f) IN
            /\ DOMAIN data = Range(state.ticker)
            /\ \A i \in 1..Len(state.ticker) :
                  \E j \in 1..Len(state.ticker) :
                      /\ state.ticker[j] = state.ticker[i]
                      /\ data[state.ticker[i]] = replies[j]
            /\ \A i \in 1..Len(state.ticker) :
                  (\A j \in 1..Len(state.ticker) : j # i => state.ticker[j] # state.ticker[i])
                     => data[state.ticker[i]] = replies[i]

C17_Witness ==
    /\ Fetched("fetch_fundamental")
    /\ state.ticker = <<"AAPL", "TSLA">>
    /\ Len(replies) = 2
    /\ replies[1].kind = "error"
    /\ replies[2].kind = "metrics"
    /\ state.fundamental_data["AAPL"].kind = "error"
    /\ state.fundamental_data["TSLA"].kind = "metrics"

\* index of the first item of acc with the given source URL
FirstWithSource(acc, src) ==
    CHOOSE i \in 1..Len(acc) :
        acc[i].source = src /\ \A j \in 1..(i - 1) : acc[j].source # src

\* C18: the news output has at most 5 items with pairwise distinct source
\* URLs; each item is the first accumulated result with its URL, and the
\* items are in accumulation order.
C18_NewsCappedDistinctFirst ==
    (Fetched("fetch_news") /\ calls # {}) =>
        LET out == state.news_articles
            acc == AllNews(replies)
        IN  /\ Len(out) <= 5
            /\ \A k, l \in 1..Len(out) : k # l => out[k].source # out[l].source
            /\ \A k \in 1..Len(out) :
                  /\ \E i \in 1..Len(acc) : acc[i].source = out[k].source
                  /\ out[k] = acc[FirstWithSource(acc, out[k].source)]
            /\ \A k, l \in 1..Len(out) :
                  k < l => FirstWithSource(acc, out[k].source) < FirstWithSource(acc, out[l].source)

C18_Witness ==
    /\ Fetched("fetch_news")
    /\ Len(state.news_articles) = 5
    /\ Cardinality({AllNews(replies)[i].source : i \in 1..Len(AllNews(replies))} \ {""}) > 5
    /\ N3again \in Range(AllNews(replies))
    /\ N3 \in Range(state.news_articles)

\* C19: in a news fetch, a failure of the query generation or of any single
\* search call yields the empty news list for the whole fetch.
C19_AnyFailureEmptiesNews ==
    (Fetched("fetch_news") /\ failed # {}) => state.news_articles = <<>>

C21_AtMostEightDocs ==
    Fetched("retrieve_docs") => Len(state.retrieved_docs) <= 8

\* the Synthesizer, called on its own, has run
Synthesized == mode = "unit" /\ executed = <<"generate_answer">>

\* C22: the Synthesizer does not raise on error markers, and the market
\* context it builds holds no fundamental block for a ticker whose
\* fundamental entry is an error marker and no technical block for a ticker
\* whose technical entry is one, whatever the marker's message.
C22_ErrorMarkedBlocksOmitted ==
    Synthesized =>
        /\ pc = "returned"
        /\ \A b \in Range(MarketParts(state, 1)) :
              IF b.block = "fundamental"
              THEN state.fundamental_data[b.ticker].kind # "error"
              ELSE state.technical_data[b.ticker].kind # "error"

\* C23: the messages a run sees are fixed when the run starts: while a
\* request's run is in progress the message list its graph state holds does
\* not change, also when another request on the same session appends its
\* user message in the meantime.
C23_MessagesFixedDuringRun ==
    [][(mode = "web" /\ mode' = "web") => state'.messages = state.messages]_vars

SessionMessages(s) == IF s = NoSession THEN <<>> ELSE s.messages

UserTurns(texts) == [i \in 1..Len(texts) |-> Message("user", texts[i])]

IsPrefix(s, t) == Len(s) <= Len(t) /\ s = SubSeq(t, 1, Len(s))

\* C24: over every interleaving of two requests' steps the session's
\* messages are exactly the user messages of the accepted requests, once
\* each and in the order the requests arrived, and every step leaves the
\* former message list a prefix of the new one.
C24_MessagesAppendOnly ==
    /\ [](SessionMessages(sessions) = UserTurns(arrived))
    /\ [][IsPrefix(SessionMessages(sessions), SessionMessages(sessions'))]_vars

C24_Witness ==
    /\ pc = "idle"
    /\ other.phase = "accepted"
    /\ arrived = <<"aapl news", "its pe">>
    /\ sessions # NoSession
    /\ Len(sessions.messages) = 2
    /\ sessions.query = "aapl news"
    /\ sessions.answer = "generated answer"

\* is_financial and the four need-flags
FiveFlags(st) ==
    <<st.is_financial, st.needs_fundamental, st.needs_technical, st.needs_news,
      st.needs_secfiling>>

\* C25: within one invocation is_financial and the four need-flags are
\* written by the Classifier only: a step of a run that changes one of them
\* is a step of analyze.
C25_FlagsWrittenOnlyByClassifier ==
    [][(mode # "none" /\ mode' = mode /\ FiveFlags(state') # FiveFlags(state))
          => executed' = Append(executed, "analyze")]_vars

\* the narrowing block, run on a list of its own, is done
Narrowed == mode = "unit" /\ executed = <<"narrow_docs">>

\* the passages of docs whose ticker is a requested one, in their order
MatchingTicker(docs, ticker) ==
    SelectIdx(docs, {i \in 1..Len(docs) :
                        \E j \in 1..Len(ticker) :
                            UpperTicker(docs[i].company_ticker) = UpperTicker(ticker[j])}, 1)

MatchingYear(docs, year) ==
    SelectIdx(docs, {i \in 1..Len(docs) : PeriodHasYear(docs[i].period_end, year)}, 1)

\* C26: on a non-empty list, ticker narrowing keeps exactly the passages
\* of a requested ticker when there is one and the whole list otherwise;
\* year narrowing, applied only when the query holds a year, then keeps
\* exactly the passages whose period holds that year when there is one and
\* the list unchanged otherwise; the result is never empty.
C26_NarrowingNeverEmpties ==
    Narrowed =>
        LET before   == replies[1].docs
            byTicker == IF MatchingTicker(before, state.ticker) # <<>>
                        THEN MatchingTicker(before, state.ticker) ELSE before
            year     == ExtractYear(state.query)
            byYear   == IF year # "" /\ MatchingYear(byTicker, year) # <<>>
                        THEN MatchingYear(byTicker, year) ELSE byTicker
        IN  /\ state.retrieved_docs # <<>>
            /\ state.retrieved_docs = byYear

C26_Witness ==
    /\ Narrowed
    /\ state.ticker = <<"AAPL">>
    /\ state.query = "aapl 2023"
    /\ replies[1].docs = <<D3, D2, D1>>
    /\ state.retrieved_docs = <<D1>>

\* C27: the document fetcher's output is ordered by non-increasing section
\* score, also when the refined query's results were merged in.
C27_OutputIsReranked ==
    Fetched("retrieve_docs") =>
        \A i, j \in 1..Len(state.retrieved_docs) :
            i < j => SectionScore(state.retrieved_docs[i].section_title)
                        >= SectionScore(state.retrieved_docs[j].section_title)

\* C28: a document fetch that retrieved something issues the refined query
\* exactly when the top-ranked passage, after narrowing and reranking, is a
\* section scored -2, and issues it at most once.
C28_RefinedQueryIffLowValueTop ==
    (Fetched("retrieve_docs") /\ replies # <<>> /\ replies[1].ok /\ replies[1].docs # <<>>) =>
        LET top == RerankDocs(NarrowDocs(replies[1].docs, state.ticker, state.query))[1]
        IN  /\ "doc_search_refined" \in calls <=> SectionScore(top.section_title) = -2
            /\ Len(replies) <= 2

\* C29: between any two nodes of a run each fetcher's output field is
\* either the value it had before the fetcher ran or the fetcher's complete
\* result: for the per-ticker fetchers the empty map when the guard
\* short-circuits and otherwise a map with an entry, a record or an error
\* marker, for every requested ticker.
C29_OutputsNeverPartial ==
    \A i \in 1..Len(Fetchers) :
        LET f == Fetchers[i]
            data == OutputField(state, f)
        IN  IF Count(f) = 0 THEN data = OutputField(DefaultState, f)
            ELSE f \in TickerScoped =>
                    IF ShortCircuits(state, f) THEN data = EmptyMap
                    ELSE /\ DOMAIN data = Range(state.ticker)
                         /\ \A t \in DOMAIN data :
                               data[t].kind \in {"metrics", "indicators", "error"}

C29_Witness ==
    /\ pc = "fetch_technical"
    /\ executed = <<"resolve_query", "analyze", "fetch_fundamental">>
    /\ state.ticker = <<"AAPL", "TSLA">>
    /\ DOMAIN state.fundamental_data = {"AAPL", "TSLA"}
    /\ state.fundamental_data["AAPL"].kind = "error"
    /\ state.fundamental_data["TSLA"].kind = "metrics"
    /\ state.technical_data = EmptyMap

\* the state field a fetcher returns
OutputName(node) ==
    CASE node = "fetch_fundamental" -> "fundamental_data"
      [] node = "fetch_technical"   -> "technical_data"
      [] node = "fetch_news"        -> "news_articles"
      [] node = "retrieve_docs"     -> "retrieved_docs"

\* C30: a step of fetch_fundamental, fetch_technical, fetch_news or
\* retrieve_docs leaves every state field other than the fetcher's own
\* output field unchanged.
C30_FetcherWritesOwnFieldOnly ==
    [][\A i \in 1..Len(Fetchers) :
          executed' = Append(executed, Fetchers[i]) =>
             /\ DOMAIN state' = DOMAIN state
             /\ \A k \in DOMAIN state \ {OutputName(Fetchers[i])} : state'[k] = state[k]]_vars

C30_Witness ==
    /\ pc = "fetch_news"
    /\ executed = <<"resolve_query", "analyze", "fetch_fundamental", "fetch_technical">>
    /\ state.fundamental_data # EmptyMap
    /\ state.technical_data # EmptyMap
    /\ state.news_articles = <<>>
    /\ state.query = "aapl news"

\* the status a fetcher's step yields
FetchStatus(node) ==
    CASE node = "fetch_fundamental" -> Status("fetching_fundamental_data")
      [] node = "fetch_technical"   -> Status("fetching_technical_data")
      [] node = "fetch_news"        -> Status("fetching_news")
      [] node = "retrieve_docs"     -> Status("retrieving_documents")

\* the status events of a stream, in order
StatusEvents(evs) == SelectIdx(evs, {i \in 1..Len(evs) : evs[i].type = "status"}, 1)

\* positions of the terminal events of a stream
Terminals(evs) == {i \in 1..Len(evs) : evs[i].type \in {"done", "error"}}

\* the statuses of a complete stream for the classification st
ExpectedStatuses(st) ==
    LET flagged == FlaggedFetchers(st)
    IN  <<Status("analyzing_query")>> \o [i \in 1..Len(flagged) |-> FetchStatus(flagged[i])]
           \o <<Status("generating_answer")>>

\* C31: in each request's stream the first event is the analyzing_query
\* status; the statuses are a prefix of: analyzing_query, the statuses of the
\* need-flagged fetchers in the order fundamental, technical, news,
\* documents, each once, generating_answer, one status per node that has
\* returned (a node that raised yields none); no terminal event is yielded
\* while the run goes on and the ended stream has exactly one, done or
\* error, as its last event.
C31_StepEventsFollowCheckpoints ==
    /\ events # <<>> => events[1] = Status("analyzing_query")
    /\ (mode = "web" /\ Count("analyze") = 1) =>
          /\ Terminals(events) = {}
          /\ Len(StatusEvents(events))
                = Len(executed) - (IF pc = "raised" THEN 2 ELSE 1)
          /\ Len(StatusEvents(events)) <= Len(ExpectedStatuses(state))
          /\ StatusEvents(events)
                = SubSeq(ExpectedStatuses(state), 1, Len(StatusEvents(events)))
          /\ pc = "END" => StatusEvents(events) = ExpectedStatuses(state)
    /\ (mode = "web" /\ Count("analyze") = 0) => events = <<>>
    /\ (mode = "none" /\ sessions # NoSession) => Terminals(events) = {Len(events)}

C31_Witness ==
    /\ mode = "none"
    /\ Len(events) = 8
    /\ StatusEvents(events)
          = <<Status("analyzing_query"), Status("fetching_fundamental_data"),
              Status("fetching_technical_data"), Status("fetching_news"),
              Status("retrieving_documents"), Status("generating_answer")>>
    /\ events[2].type = "data"
    /\ events[8].type = "done"

\* the last request's stream has ended with the done event
TurnCompleted ==
    mode = "none" /\ events # <<>> /\ events[Len(events)].type = "done"

\* C32: after each completed turn the session's messages end with an
\* assistant turn that holds the turn's answer.
C32_AnswerAppendedAsAssistantTurn ==
    TurnCompleted =>
        /\ sessions.messages # <<>>
        /\ sessions.messages[Len(sessions.messages)] = Message("assistant", sessions.answer)

\* C33: in every done payload each ticker that is a key of
\* market_data.fundamental or market_data.technical is an element of the
\* payload's ticker list.
C33_MarketDataOnlyForPayloadTickers ==
    \A i \in 1..Len(events) :
        events[i].type = "done" =>
            \A k \in DOMAIN events[i].market_data :
                DOMAIN events[i].market_data[k] \subseteq Range(events[i].ticker)


\* the structural part of termination: no node runs twice, the run starts
\* with resolve_query then analyze, and at most seven nodes execute
EachNodeAtMostOnce ==
    /\ \A n \in NodeNames : Count(n) <= 1
    /\ Len(executed) <= Cardinality(NodeNames)
    /\ Len(executed) >= 1 => executed[1] = "resolve_query"
    /\ Len(executed) >= 2 => executed[2] = "analyze"

\* C34: every run terminates at END: each of the seven nodes executes at
\* most once, resolve_query and analyze always execute, no node is
\* re-entered, and a run that is over has reached END after at most seven
\* node executions.
C34_EveryRunReachesEnd ==
    /\ EachNodeAtMostOnce
    /\ RunOver => /\ pc = "END"
                  /\ Count("resolve_query") = 1
                  /\ Count("analyze") = 1


\* the four evidence fields of a state record are empty
NoEvidence(st) ==
    /\ st.fundamental_data = EmptyMap
    /\ st.technical_data = EmptyMap
    /\ st.news_articles = <<>>
    /\ st.retrieved_docs = <<>>

\* the first request of a session was classified as not financial
FreshNonFinancial(st) == Len(st.messages) = 1 /\ ~st.is_financial

\* C35: the router looks at the need-flags only: in the first request of a
\* session classified with is_financial false, every need-flagged fetcher is
\* visited once and its status event is in the stream when the run reaches
\* END, no fetcher calls a collaborator, and the four evidence fields are
\* empty during the run, in the done payload's state and in the session
\* record afterwards.
C35_RouterIgnoresIsFinancial ==
    /\ (mode = "web" /\ Count("analyze") = 1 /\ FreshNonFinancial(state)) =>
          /\ pc = "END" =>
                \A i \in 1..Len(Fetchers) :
                    NeedFlag(state, Fetchers[i]) =>
                        /\ Count(Fetchers[i]) = 1
                        /\ \E k \in 1..Len(events) : events[k] = FetchStatus(Fetchers[i])
          /\ NoEvidence(state)
          /\ NoEvidence(current_state)
          /\ calls \cap {"market_fundamental", "market_technical", "news_queries",
                         "news_search", "doc_search", "doc_search_refined"} = {}
    /\ (TurnCompleted /\ FreshNonFinancial(sessions)) => NoEvidence(sessions)

C35_Witness ==
    /\ TurnCompleted
    /\ FreshNonFinancial(sessions)
    /\ sessions.needs_fundamental /\ sessions.needs_news
    /\ StatusEvents(events)
          = <<Status("analyzing_query"), Status("fetching_fundamental_data"),
              Status("fetching_news"), Status("generating_answer")>>
    /\ NoEvidence(sessions)


\* the refined query of a document fetch returned results
RefinedMerged ==
    /\ Fetched("retrieve_docs")
    /\ Len(replies) = 2
    /\ replies[2].ok
    /\ replies[2].docs # <<>>

\* C36: when the refined query returns results, the merge keeps every
\* passage of the first, narrowed and reranked, result, in its order and up
\* to the cap of 8, ahead of the passages that only the refined query
\* contributed: the first result, cut to 8, is a prefix of the output.
C36_MergeKeepsFirstResult ==
    RefinedMerged =>
        IsPrefix(FirstN(RerankDocs(NarrowDocs(replies[1].docs, state.ticker, state.query)),
                        DocCap),
                 state.retrieved_docs)


\* C38: no article of the news fetcher's output has an empty source URL: a
\* search result without link is dropped, also when fewer than 5 articles
\* are left.
C38_NoUnlinkedNews ==
    Fetched("fetch_news") =>
        \A i \in 1..Len(state.news_articles) : state.news_articles[i].source # ""

C38_Witness ==
    /\ Fetched("fetch_news")
    /\ NoLink \in Range(AllNews(replies))
    /\ state.news_articles # <<>>
    /\ Len(state.news_articles) < NewsCap
    /\ NoLink \notin Range(state.news_articles)


\* the session record without its messages
SessionFields(s) ==
    IF s = NoSession THEN [k \in DOMAIN InitialSession \ {"messages"} |-> InitialSession[k]]
    ELSE [k \in DOMAIN s \ {"messages"} |-> s[k]]

\* the run of the request in progress has raised
RunRaised == mode = "web" /\ pc = "raised"

\* C37: a request whose run raises leaves the session record as the request
\* found it, but for the user message: accepting the request appends the
\* user message and changes no other field, no step of the run and of its
\* error handling writes to the session, and the stream of such a request
\* ends with one error event, its only terminal event.
C37_FailedRequestKeepsSession ==
    /\ [][/\ (pc = "idle" /\ pc' # "idle" /\ mode' = "web") =>
                /\ SessionFields(sessions') = SessionFields(sessions)
                /\ \E m \in UserTexts :
                      SessionMessages(sessions')
                         = Append(SessionMessages(sessions), Message("user", m))
          /\ (mode = "web" /\ pc # "END") => sessions' = sessions
          /\ RunRaised =>
                /\ mode' = "none"
                /\ Terminals(events') = {Len(events')}
                /\ events'[Len(events')].type = "error"]_vars

C37_Witness ==
    /\ mode = "none"
    /\ events # <<>>
    /\ events[Len(events)].type = "error"
    /\ Len(sessions.messages) = 2
    /\ sessions.answer # ""
    /\ sessions.needs_news /\ ~sessions.needs_fundamental

====
